---- MODULE Spec2Model ----
(***************************************************************************)
(* A model of src/src/components/main_view.rs: the LineSpacer widget, the  *)
(* MainView component (construction, update, handle_event, draw,           *)
(* get_children, get_accessibility_node) and the registry-open task that   *)
(* MainView::new spawns.                                                   *)
(*                                                                         *)
(* One behaviour is one scenario: Init fixes the build (debug_assertions   *)
(* on or off) and the arguments of the call under study (input); the       *)
(* actions are the calls themselves, each a whole handler, interleaved     *)
(* with the steps of the background task.                                  *)
(***************************************************************************)
EXTENDS Integers, Sequences, FiniteSets, TLC

VARIABLES
    input,              \* the arguments of the call under study
    debug_assertions,   \* cfg!(debug_assertions) of the build
    tree,               \* MainView { id, record_name_field, encoding_radio_array }
    taskPc,             \* position of the "load registry task"
    channel,            \* the Actions in flight on the UnboundedSender<Action>
    uiAlive,            \* FALSE once a UI turn has panicked
    op,                 \* the last call made
    result,             \* what that call returned
    writes,             \* the set_symbol calls of the last LineSpacer::render
    rects,              \* the named rectangles the last draw computed
    calls,              \* the render_widget / child draw calls of the last draw
    node                \* the node of the last get_accessibility_node

vars == <<input, debug_assertions, tree, taskPc, channel, uiAlive, op, result,
          writes, rects, calls, node>>

----------------------------------------------------------------------------
(* Bounds of the model. *)

\* widest and tallest area handed to MainView::draw
MaxW == 27
MaxH == 13
\* largest x and y of an area's origin
MaxOrigin == 1
\* longest extent of a rectangle handed to LineSpacer::render on its own
MaxLine == 5

----------------------------------------------------------------------------
(* u16 arithmetic and ratatui's Rect. *)

Min(a, b) == IF a <= b THEN a ELSE b

\* u16::saturating_sub
saturating_sub(a, b) == IF a >= b THEN a - b ELSE 0

Rect(x, y, width, height) == [x |-> x, y |-> y, width |-> width, height |-> height]

\* Rect::as_position
as_position(area) == <<area.x, area.y>>

----------------------------------------------------------------------------
(* LineSpacer (lines 20-73). *)

Horizontal == "Horizontal"

Vertical == "Vertical"

\* one buf[position].set_symbol(self.<field>)
SetSymbol(self, position, fld) ==
    [position |-> position, field |-> fld, symbol |-> self[fld]]

\* LineSpacer::render with the single-cell case left out.
LineSpacer_render_NoMerged(self, area, dbg) ==
    LET start_position == as_position(area)
        check == /\ (self.direction = Horizontal \/ area.width = 1)
                 /\ (self.direction = Vertical \/ area.height = 1)
    IN  IF dbg /\ ~check
        THEN [outcome |-> "panic", writes |-> <<>>]
        ELSE IF area.width = 0 \/ area.height = 0
        THEN [outcome |-> "ok", writes |-> <<>>]
        ELSE IF self.direction = Horizontal
        THEN LET end_position == <<start_position[1] + area.width - 1, start_position[2]>>
             IN  [outcome |-> "ok",
                  writes |-> <<SetSymbol(self, start_position, "begin"),
                               SetSymbol(self, end_position, "end")>>
                             \o [i \in 1 .. (end_position[1] - start_position[1] - 1) |->
                                   SetSymbol(self, <<start_position[1] + i, start_position[2]>>, "inner")]]
        ELSE LET end_position == <<start_position[1], start_position[2] + area.height - 1>>
             IN  [outcome |-> "ok",
                  writes |-> <<SetSymbol(self, start_position, "begin"),
                               SetSymbol(self, end_position, "end")>>
                             \o [i \in 1 .. (end_position[2] - start_position[2] - 1) |->
                                   SetSymbol(self, <<start_position[1], start_position[2] + i>>, "inner")]]

\* LineSpacer::render with the inner loops running through the end position
\* (start + 1 ..= end instead of start + 1 .. end).
LineSpacer_render_InclusiveLoop(self, area, dbg) ==
    LET start_position == as_position(area)
        check == /\ (self.direction = Horizontal \/ area.width = 1)
                 /\ (self.direction = Vertical \/ area.height = 1)
    IN  IF dbg /\ ~check
        THEN [outcome |-> "panic", writes |-> <<>>]
        ELSE IF area.width = 0 \/ area.height = 0
        THEN [outcome |-> "ok", writes |-> <<>>]
        ELSE IF area.width <= 1 /\ area.height <= 1
        THEN [outcome |-> "ok", writes |-> <<SetSymbol(self, start_position, "merged")>>]
        ELSE IF self.direction = Horizontal
        THEN LET end_position == <<start_position[1] + area.width - 1, start_position[2]>>
             IN  [outcome |-> "ok",
                  writes |-> <<SetSymbol(self, start_position, "begin"),
                               SetSymbol(self, end_position, "end")>>
                             \o [i \in 1 .. (end_position[1] - start_position[1]) |->
                                   SetSymbol(self, <<start_position[1] + i, start_position[2]>>, "inner")]]
        ELSE LET end_position == <<start_position[1], start_position[2] + area.height - 1>>
             IN  [outcome |-> "ok",
                  writes |-> <<SetSymbol(self, start_position, "begin"),
                               SetSymbol(self, end_position, "end")>>
                             \o [i \in 1 .. (end_position[2] - start_position[2]) |->
                                   SetSymbol(self, <<start_position[1], start_position[2] + i>>, "inner")]]

\* impl Widget for LineSpacer: fn render(self, area, buf).  dbg is
\* cfg!(debug_assertions): debug_assert! is compiled out of a release build.
\* The result is how the call ended and the set_symbol calls it made, in order.
\* The rectangle lies inside the buffer, as the areas of a Frame do, and its
\* coordinates stay far below 2^16: no index is out of bounds, no u16 overflows.
LineSpacer_render(self, area, dbg) ==
    LET start_position == as_position(area)
        check == /\ (self.direction = Horizontal \/ area.width = 1)
                 /\ (self.direction = Vertical \/ area.height = 1)
    IN  IF dbg /\ ~check
        THEN [outcome |-> "panic", writes |-> <<>>]
        ELSE IF area.width = 0 \/ area.height = 0
        THEN [outcome |-> "ok", writes |-> <<>>]
        ELSE IF area.width <= 1 /\ area.height <= 1
        THEN [outcome |-> "ok", writes |-> <<SetSymbol(self, start_position, "merged")>>]
        ELSE IF self.direction = Horizontal
        THEN LET end_position == <<start_position[1] + area.width - 1, start_position[2]>>
             IN  [outcome |-> "ok",
                  writes |-> <<SetSymbol(self, start_position, "begin"),
                               SetSymbol(self, end_position, "end")>>
                             \o [i \in 1 .. (end_position[1] - start_position[1] - 1) |->
                                   SetSymbol(self, <<start_position[1] + i, start_position[2]>>, "inner")]]
        ELSE LET end_position == <<start_position[1], start_position[2] + area.height - 1>>
             IN  [outcome |-> "ok",
                  writes |-> <<SetSymbol(self, start_position, "begin"),
                               SetSymbol(self, end_position, "end")>>
                             \o [i \in 1 .. (end_position[2] - start_position[2] - 1) |->
                                   SetSymbol(self, <<start_position[1], start_position[2] + i>>, "inner")]]

\* the two LineSpacers MainView::draw builds
spacer_horizontal ==
    [direction |-> Horizontal, begin |-> "HORIZONTAL", inner |-> "HORIZONTAL",
     end |-> "HORIZONTAL", merged |-> "HORIZONTAL"]

spacer_vertical_forked ==
    [direction |-> Vertical, begin |-> "HORIZONTAL_DOWN", inner |-> "VERTICAL",
     end |-> "HORIZONTAL_UP", merged |-> "HORIZONTAL"]

----------------------------------------------------------------------------
(* ratatui's Layout, the Rectangle Partitioner.  Its code is not under     *)
(* src/: it is modelled from the partitioning algorithm the specification  *)
(* gives (spacing subtracted, fixed lengths in order clipped at what is    *)
(* left, the rest shared among the Fill constraints, segments and gaps     *)
(* laid contiguously from the parent's origin).                            *)

Length(n) == [type |-> "Length", n |-> n]

Fill(weight) == [type |-> "Fill", n |-> weight]

\* the lengths of the segments along the axis
SegmentLengths(extent, constraints, spacing) ==
    LET n == Len(constraints)
        avail == saturating_sub(extent, spacing * (n - 1))
        isFill == [i \in 1 .. n |-> constraints[i].type = "Fill"]
        \* the extent the fixed segments 1 .. i take: each its length, clipped
        \* at what the earlier ones left
        used[i \in 0 .. n] ==
            IF i = 0 THEN 0
            ELSE LET before == used[i - 1]
                 IN  IF isFill[i] THEN before
                     ELSE before + Min(constraints[i].n, avail - before)
        weights[i \in 0 .. n] ==
            IF i = 0 THEN 0
            ELSE weights[i - 1] + (IF isFill[i] THEN constraints[i].n ELSE 0)
        fills[i \in 0 .. n] ==
            IF i = 0 THEN 0 ELSE fills[i - 1] + (IF isFill[i] THEN 1 ELSE 0)
        rest == avail - used[n]
        total == weights[n]
        share == [i \in 1 .. n |->
                    IF isFill[i] THEN (rest * constraints[i].n) \div total ELSE 0]
        shared[i \in 0 .. n] == IF i = 0 THEN 0 ELSE shared[i - 1] + share[i]
        \* what rounding down left over goes to the first Fill segments
        leftover == IF total = 0 THEN 0 ELSE rest - shared[n]
    IN  [i \in 1 .. n |->
            IF isFill[i]
            THEN share[i] + (IF fills[i] <= leftover THEN 1 ELSE 0)
            ELSE used[i] - used[i - 1]]

\* where the gaps lie along the axis, the segments' lengths being lens.
\* Gap i is the one before segment i; gap 1 and gap n + 1, before the first
\* and after the last segment, are empty.  A gap is clipped at the end of the
\* parent.
GapLayout(extent, n, spacing, lens) ==
    LET gaps[i \in 1 .. n + 1] ==
            IF i = 1 THEN [at |-> 0, len |-> 0]
            ELSE LET before == gaps[i - 1]
                     at == before.at + before.len + lens[i - 1]
                 IN  [at |-> at,
                      len |-> IF i = n + 1 THEN 0 ELSE Min(spacing, extent - at)]
    IN  gaps

\* where the segments and the gaps lie along the axis
SegmentLayout(extent, constraints, spacing) ==
    [lens |-> SegmentLengths(extent, constraints, spacing),
     gaps |-> GapLayout(extent, Len(constraints), spacing,
                        SegmentLengths(extent, constraints, spacing))]

\* Layout: direction, spacing and constraints
Layout(direction, spacing, constraints) ==
    [direction |-> direction, spacing |-> spacing, constraints |-> constraints]

\* the extent of a rectangle along the layout's direction
Extent(l, area) == IF l.direction = Horizontal THEN area.width ELSE area.height

\* the rectangle at offset at, of length len, along the layout's direction
Along(l, area, at, len) ==
    IF l.direction = Horizontal
    THEN Rect(area.x + at, area.y, len, area.height)
    ELSE Rect(area.x, area.y + at, area.width, len)

SegmentRects(l, area, s) ==
    [i \in 1 .. Len(l.constraints) |->
        Along(l, area, s.gaps[i].at + s.gaps[i].len, s.lens[i])]

GapRects(l, area, s) ==
    [i \in 1 .. Len(l.constraints) + 1 |-> Along(l, area, s.gaps[i].at, s.gaps[i].len)]

\* Layout::areas
areas(l, area) ==
    SegmentRects(l, area, SegmentLayout(Extent(l, area), l.constraints, l.spacing))

\* Layout::spacers: one more rectangle than there are segments
spacers(l, area) ==
    GapRects(l, area, SegmentLayout(Extent(l, area), l.constraints, l.spacing))

----------------------------------------------------------------------------
(* MainView (lines 90-278). *)

\* a Result: Ok(value), Err(value), or the panic that ended the call
Ok(v) == [tag |-> "Ok", value |-> v]

Err(e) == [tag |-> "Err", value |-> e]

Panic(why) == [tag |-> "panic", value |-> why]

\* enum Encoding and its Display
Encoding == {"Utf8", "Hex"}

Encoding_fmt(e) == IF e = "Utf8" THEN "UTF-8" ELSE "Hexadecimal Byte String"

\* MainView::new: the component it returns (the task it spawns starts at
\* taskPc = "spawned").  The children's ids come from ComponentId::new().
MainView_new(id, field_id, radio_id) ==
    [id |-> id,
     record_name_field |-> [id |-> field_id, kind |-> "InputField"],
     encoding_radio_array |->
        [id |-> radio_id, kind |-> "RadioArray", options |-> <<"Utf8", "Hex">>,
         selected |-> "Utf8", direction |-> Horizontal]]

is_focusable(self) == FALSE

get_id(self) == self.id

get_children(self) == <<self.record_name_field, self.encoding_radio_array>>

\* get_accessibility_node: a Group node whose children are set to vec![]
get_accessibility_node(self) == Ok([role |-> "Group", children |-> <<>>])

\* the layouts MainView::draw builds
layout ==
    Layout(Vertical, 0,
           <<Length(1), Length(7), Fill(1), Length(1), Length(2), Length(1)>>)

\* layout_top with its last column one cell short
layout_top_Short == Layout(Horizontal, 1, <<Length(8), Fill(1), Length(15)>>)

layout_top == Layout(Horizontal, 1, <<Length(8), Fill(1), Length(16)>>)

layout_bottom_lines == Layout(Horizontal, 1, <<Length(11), Fill(1)>>)

\* the unnamed layout of lines 221-224
layout_bottom == Layout(Vertical, 0, <<Length(1), Length(1)>>)

\* lines 189-198: the two title rectangles
area_content_title(area_top, area_metadata) ==
    Rect(area_metadata.x,
         saturating_sub(area_top.y + area_top.height, 1),
         saturating_sub(area_top.width, area_metadata.x),
         1)

area_bottom_title(area_bottom_spacer, content_title) ==
    [content_title EXCEPT !.y = area_bottom_spacer.y]

\* lines 179-198, the bands being given: the columns and the spacers of the
\* top row, and the titles
TopRects(bands, tops, gaps) ==
    [area_header |-> bands[1], area_top |-> bands[2], area_content |-> bands[3],
     area_bottom_spacer |-> bands[4], area_bottom |-> bands[5],
     area_footer |-> bands[6],
     area_tree |-> tops[1], area_metadata |-> tops[2], area_overview |-> tops[3],
     area_top_spacer_0 |-> gaps[2], area_top_spacer_1 |-> gaps[3],
     area_content_title |-> area_content_title(bands[2], tops[2]),
     area_bottom_title |->
        area_bottom_title(bands[4], area_content_title(bands[2], tops[2]))]

BandRects(bands) ==
    TopRects(bands, areas(layout_top, bands[2]), spacers(layout_top, bands[2]))

\* lines 167-198: the rectangles draw computes before it renders anything
DrawRects(area) == BandRects(areas(layout, area))

\* lines 217-227: the two lines of the bottom band, each a label and a field
LineRects(lines) ==
    [area_record_name |-> lines[1], area_encoding |-> lines[2],
     area_record_name_label |-> areas(layout_bottom_lines, lines[1])[1],
     area_record_name_field |-> areas(layout_bottom_lines, lines[1])[2],
     area_encoding_label |-> areas(layout_bottom_lines, lines[2])[1],
     area_encoding_field |-> areas(layout_bottom_lines, lines[2])[2]]

DrawBottomRects(area_bottom) == LineRects(areas(layout_bottom, area_bottom))

\* one frame.render_widget(widget, area), or one child.draw(frame, area, focused_id)
Call(kind, who, name, area, focused_id, res) ==
    [kind |-> kind, who |-> who, name |-> name, area |-> area,
     focused_id |-> focused_id, result |-> res]

\* frame.render_widget of a LineSpacer: the debug assertion may end it
RenderSpacer(spacer, name, r, dbg) ==
    Call("LineSpacer", 0, name, r[name], 0,
         IF LineSpacer_render(spacer, r[name], dbg).outcome = "ok"
         THEN Ok("()") ELSE Panic("debug_assert"))

\* frame.render_widget of a Block, a Span or a Text
RenderWidget(kind, name, r) == Call(kind, 0, name, r[name], 0, Ok("()"))

\* child.draw(frame, area, focused_id), which returns what the child returns
DrawChild(child, name, r, focused_id, res) ==
    Call("draw", child.id, name, r[name], focused_id, res)

\* lines 200-235: the calls draw makes when none of them fails, r naming the
\* rectangles
DrawCalls(self, r, focused_id, field_result, radio_result, dbg) ==
    << RenderSpacer(spacer_vertical_forked, "area_top_spacer_0", r, dbg),
       RenderSpacer(spacer_vertical_forked, "area_top_spacer_1", r, dbg),
       RenderSpacer(spacer_horizontal, "area_footer", r, dbg),
       RenderSpacer(spacer_horizontal, "area_bottom_spacer", r, dbg),
       RenderWidget("Block", "area_tree", r),
       RenderWidget("Block", "area_metadata", r),
       RenderWidget("Block", "area_overview", r),
       RenderWidget("Span", "area_content_title", r),
       RenderWidget("Span", "area_bottom_title", r),
       RenderWidget("Span", "area_header", r),
       RenderWidget("Text", "area_content", r),
       RenderWidget("Span", "area_record_name_label", r),
       DrawChild(self.record_name_field, "area_record_name_field", r,
                 focused_id, field_result),
       RenderWidget("Span", "area_encoding_label", r),
       DrawChild(self.encoding_radio_array, "area_encoding_field", r,
                 focused_id, radio_result) >>

\* the first call that did not return Ok, or 0
FirstFailure(cs) ==
    IF \E i \in 1 .. Len(cs) : cs[i].result.tag # "Ok"
    THEN CHOOSE i \in 1 .. Len(cs) :
            /\ cs[i].result.tag # "Ok"
            /\ \A j \in 1 .. (i - 1) : cs[j].result.tag = "Ok"
    ELSE 0

\* the twelfth call is the first after the layouts of lines 217-227
BottomLayoutAt == 12

\* draw's outcome, cs being the calls it makes when none fails and cut the
\* first that fails: a failed debug assertion panics, the input field's Err is
\* unwrapped (line 232), the radio array's Err is returned by ? (line 235).
\* The result: what draw returns, the calls it made up to and with the one
\* that ended it, and the rectangles it had computed by then.
DrawOutcome(self, r1, r, cs, cut) ==
    [result |->
        IF cut = 0 THEN Ok("()")
        ELSE IF cs[cut].kind = "LineSpacer" THEN cs[cut].result
        ELSE IF cs[cut].who = self.record_name_field.id THEN Panic("unwrap")
        ELSE cs[cut].result,
     calls |-> IF cut = 0 THEN cs ELSE SubSeq(cs, 1, cut),
     rects |-> IF cut = 0 \/ cut >= BottomLayoutAt THEN r ELSE r1]

DrawWith(self, r1, r, cs) == DrawOutcome(self, r1, r, cs, FirstFailure(cs))

DrawOn(self, r1, r, focused_id, field_result, radio_result, dbg) ==
    DrawWith(self, r1, r,
             DrawCalls(self, r, focused_id, field_result, radio_result, dbg))

DrawIn(self, r1, focused_id, field_result, radio_result, dbg) ==
    DrawOn(self, r1, r1 @@ DrawBottomRects(r1.area_bottom),
           focused_id, field_result, radio_result, dbg)

\* MainView::draw.  field_result and radio_result are what the two children's
\* draw calls return.
MainView_draw(self, area, focused_id, field_result, radio_result, dbg) ==
    DrawIn(self, DrawRects(area), focused_id, field_result, radio_result, dbg)

update(self, message) == Ok("None")

handle_event(self, event) == Ok("None")

----------------------------------------------------------------------------
(* The scenarios. *)

\* the focus values a draw is called with: the ids of MainView (1) and of its
\* children (2, 3), and of components elsewhere in the tree when raised
MaxFocus == 3

ComponentIds == 1 .. MaxFocus

\* what the draw of the input field and of the radio array may return
FieldResults == {Ok("()"), Err("E1")}

RadioResults == {Ok("()"), Err("E2")}

\* the line drawn by the specification's scenarios, in both directions
TestSpacers ==
    { [direction |-> d, begin |-> "+", inner |-> "-", end |-> "+", merged |-> "o"] :
        d \in {Horizontal, Vertical} }

Spacers == {spacer_horizontal, spacer_vertical_forked} \cup TestSpacers

NoRect == Rect(0, 0, 0, 0)

RenderInputs ==
    { [kind |-> "render", spacer |-> s, area |-> Rect(x, y, w, h), focused_id |-> 0,
       field_result |-> Ok("()"), radio_result |-> Ok("()")] :
        s \in Spacers, x \in 0 .. MaxOrigin, y \in 0 .. MaxOrigin,
        w \in 0 .. MaxLine, h \in 0 .. MaxLine }

DrawInputs ==
    { [kind |-> "draw", spacer |-> spacer_horizontal, area |-> Rect(x, y, w, h),
       focused_id |-> f, field_result |-> fr, radio_result |-> rr] :
        x \in 0 .. MaxOrigin, y \in 0 .. MaxOrigin, w \in 0 .. MaxW, h \in 0 .. MaxH,
        f \in ComponentIds, fr \in FieldResults, rr \in RadioResults }

NoRects == [n \in {} |-> NoRect]

NoNode == [role |-> "none", children |-> <<>>]

None == [tag |-> "none", value |-> "none"]

\* the draws of the areas at the corners of the bounds
CornerDrawInputs ==
    { i \in DrawInputs : i.area.width \in {0, MaxW} /\ i.area.height \in {0, MaxH} }

\* the state MainView::new leaves, the build and the scenario being given
Constructed(inputs) ==
    /\ input \in inputs
    /\ debug_assertions \in BOOLEAN
    /\ tree = MainView_new(1, 2, 3)
    /\ taskPc = "spawned"
    /\ channel = <<>>
    /\ uiAlive = TRUE
    /\ op = "new"
    /\ result = None
    /\ writes = <<>>
    /\ rects = NoRects
    /\ calls = <<>>
    /\ node = NoNode

\* the whole system: every render, the draws of the corner areas
Init ==
    \E kind \in {"render", "draw"} :
        Constructed(IF kind = "render" THEN RenderInputs ELSE CornerDrawInputs)

\* the calls alone: every render and every draw within the bounds
InitCalls ==
    \E kind \in {"render", "draw"} :
        Constructed(IF kind = "render" THEN RenderInputs ELSE DrawInputs)

----------------------------------------------------------------------------
(* The UI turns.  One runs to completion before the next begins; a turn    *)
(* that panics ends the turn loop.                                         *)

\* frame.render_widget(spacer, area) on its own
Rendered(got) ==
    /\ op' = "render"
    /\ result' = (IF got.outcome = "ok" THEN Ok("()") ELSE Panic("debug_assert"))
    /\ writes' = got.writes
    /\ uiAlive' = (got.outcome = "ok")

Render ==
    /\ uiAlive
    /\ input.kind = "render"
    /\ Rendered(LineSpacer_render(input.spacer, input.area, debug_assertions))
    /\ rects' = NoRects
    /\ calls' = <<>>
    /\ node' = NoNode
    /\ UNCHANGED <<input, debug_assertions, tree, taskPc, channel>>

\* what a draw leaves in the state
Drawn(got) ==
    /\ op' = "draw"
    /\ result' = got.result
    /\ calls' = got.calls
    /\ rects' = got.rects
    /\ uiAlive' = (got.result.tag # "panic")

Draw ==
    /\ uiAlive
    /\ input.kind = "draw"
    /\ Drawn(MainView_draw(tree, input.area, input.focused_id,
                           input.field_result, input.radio_result,
                           debug_assertions))
    /\ writes' = <<>>
    /\ node' = NoNode
    /\ UNCHANGED <<input, debug_assertions, tree, taskPc, channel>>

Update ==
    /\ uiAlive
    /\ \E message \in {"Tick", "Render"} :
          result' = update(tree, message)
    /\ op' = "update"
    /\ writes' = <<>>
    /\ rects' = NoRects
    /\ calls' = <<>>
    /\ node' = NoNode
    /\ UNCHANGED <<input, debug_assertions, tree, taskPc, channel, uiAlive>>

HandleEvent ==
    /\ uiAlive
    /\ \E event \in {"Key", "Resize"} :
          result' = handle_event(tree, event)
    /\ op' = "handle_event"
    /\ writes' = <<>>
    /\ rects' = NoRects
    /\ calls' = <<>>
    /\ node' = NoNode
    /\ UNCHANGED <<input, debug_assertions, tree, taskPc, channel, uiAlive>>

GetAccessibilityNode ==
    /\ uiAlive
    /\ op' = "get_accessibility_node"
    /\ result' = Ok("node")
    /\ node' = get_accessibility_node(tree).value
    /\ writes' = <<>>
    /\ rects' = NoRects
    /\ calls' = <<>>
    /\ UNCHANGED <<input, debug_assertions, tree, taskPc, channel, uiAlive>>

----------------------------------------------------------------------------
(* The task tokio::spawn runs (lines 103-109).  It owns a clone of args    *)
(* and nothing else: neither the component nor the sender.  A panic in a   *)
(* spawned task ends that task only.                                       *)

\* tracing::trace!(dir = ?args.registry_directory)
TaskTrace ==
    /\ taskPc = "spawned"
    /\ taskPc' = "opening"
    /\ UNCHANGED <<input, debug_assertions, tree, channel, uiAlive, op, result,
                   writes, rects, calls, node>>

\* Registry::open(..).await returns Ok: the registry is bound and dropped
RegistryOpenOk ==
    /\ taskPc = "opening"
    /\ taskPc' = "done"
    /\ UNCHANGED <<input, debug_assertions, tree, channel, uiAlive, op, result,
                   writes, rects, calls, node>>

\* the task's failure reaching the turn loop
RegistryOpenErr_Propagates ==
    /\ taskPc = "opening"
    /\ taskPc' = "panicked"
    /\ uiAlive' = FALSE
    /\ UNCHANGED <<input, debug_assertions, tree, channel, op, result,
                   writes, rects, calls, node>>

\* Registry::open(..).await returns Err: unwrap panics inside the task
RegistryOpenErr ==
    /\ taskPc = "opening"
    /\ taskPc' = "panicked"
    /\ UNCHANGED <<input, debug_assertions, tree, channel, uiAlive, op, result,
                   writes, rects, calls, node>>

Next ==
    \/ Render
    \/ Draw
    \/ Update
    \/ HandleEvent
    \/ GetAccessibilityNode
    \/ TaskTrace
    \/ RegistryOpenOk
    \/ RegistryOpenErr

Spec == Init /\ [][Next]_vars

\* the render and draw calls, on every input within the bounds
NextCalls ==
    \/ Render
    \/ Draw

SpecCalls == InitCalls /\ [][NextCalls]_vars

----------------------------------------------------------------------------
(* What the claims speak of. *)

\* the cells a rectangle covers
Cells(r) ==
    { <<x, y>> : x \in r.x .. (r.x + r.width - 1), y \in r.y .. (r.y + r.height - 1) }

\* the extent of a rectangle along the line and across it
AxisExtent(spacer, area) ==
    IF spacer.direction = Horizontal THEN area.width ELSE area.height

CrossExtent(spacer, area) ==
    IF spacer.direction = Horizontal THEN area.height ELSE area.width

\* how far along the line a position lies from the rectangle's first cell
AxisOffset(spacer, area, position) ==
    IF spacer.direction = Horizontal THEN position[1] - area.x ELSE position[2] - area.y

\* the field case 3 is to write at offset k of a line of n cells
FieldAlong(k, n) == IF k = 0 THEN "begin" ELSE IF k = n - 1 THEN "end" ELSE "inner"

IsEmpty(r) == r.width = 0 \/ r.height = 0

\* every cell of r is a cell of outer
Inside(outer, r) ==
    \/ IsEmpty(r)
    \/ /\ outer.x <= r.x
       /\ outer.y <= r.y
       /\ r.x + r.width <= outer.x + outer.width
       /\ r.y + r.height <= outer.y + outer.height

\* where a rectangle starts and ends along a direction, and its extent
StartAlong(d, r) == IF d = Horizontal THEN r.x ELSE r.y

ExtentAlong(d, r) == IF d = Horizontal THEN r.width ELSE r.height

EndAlong(d, r) == StartAlong(d, r) + ExtentAlong(d, r)

\* r spans the parent across the direction d
SpansAcross(d, parent, r) ==
    IF d = Horizontal
    THEN r.y = parent.y /\ r.height = parent.height
    ELSE r.x = parent.x /\ r.width = parent.width

RECURSIVE SumExtents(_, _)
SumExtents(d, pieces) ==
    IF pieces = <<>> THEN 0
    ELSE ExtentAlong(d, Head(pieces)) + SumExtents(d, Tail(pieces))

\* pieces (segments and gaps, in order) tile the parent along d: the first
\* starts at the parent's origin, each next one starts where the one before
\* ends (so no two overlap), the last ends where the parent ends, and their
\* extents add up to the parent's.  fixed[i] is the length piece i must have,
\* or -1 when it is a Fill segment.
Tiles(d, parent, pieces, fixed) ==
    /\ StartAlong(d, pieces[1]) = StartAlong(d, parent)
    /\ \A i \in 1 .. Len(pieces) - 1 :
          StartAlong(d, pieces[i + 1]) = EndAlong(d, pieces[i])
    /\ EndAlong(d, pieces[Len(pieces)]) = EndAlong(d, parent)
    /\ \A i \in 1 .. Len(pieces) :
          /\ SpansAcross(d, parent, pieces[i])
          /\ ExtentAlong(d, pieces[i]) >= 0
          /\ fixed[i] >= 0 => ExtentAlong(d, pieces[i]) = fixed[i]
    /\ SumExtents(d, pieces) = ExtentAlong(d, parent)

\* the gap between a label and its field, which draw does not ask for
GapAfter(label) == Rect(label.x + label.width, label.y, 1, label.height)

\* the draw calls a child received
DrawsOf(id) == { i \in DOMAIN calls : calls[i].kind = "draw" /\ calls[i].who = id }

----------------------------------------------------------------------------
(* The claims. *)

\* C1: LineSpacer::render, case 3.  For either direction and every rectangle
\* of extent n >= 2 along the line and 1 across it, render returns normally
\* having written exactly the n cells of the rectangle, each once: the begin
\* glyph at the first, the end glyph at the last, the inner glyph at each of
\* the n - 2 between them, and no cell outside the rectangle.
C1_LineWritten ==
    (/\ op = "render"
     /\ AxisExtent(input.spacer, input.area) >= 2
     /\ CrossExtent(input.spacer, input.area) = 1)
    => LET n == AxisExtent(input.spacer, input.area)
       IN  /\ result = Ok("()")
           /\ Len(writes) = n
           /\ { writes[i].position : i \in DOMAIN writes } = Cells(input.area)
           /\ Cardinality(Cells(input.area)) = n
           /\ \A i \in DOMAIN writes :
                 /\ writes[i].field =
                        FieldAlong(AxisOffset(input.spacer, input.area, writes[i].position), n)
                 /\ writes[i].symbol = input.spacer[writes[i].field]
           /\ Cardinality({ i \in DOMAIN writes : writes[i].field = "inner" }) = n - 2

\* C1's case: the line of the end-to-end scenario, '+', '-', '+' over (0, 0, 5, 1)
C1_Witness ==
    /\ op = "render"
    /\ input.spacer.direction = Horizontal
    /\ input.spacer.begin = "+"
    /\ input.area = Rect(0, 0, 5, 1)
    /\ Len(writes) = 5
    /\ \E i \in DOMAIN writes : writes[i].position = <<0, 0>> /\ writes[i].symbol = "+"
    /\ \E i \in DOMAIN writes : writes[i].position = <<4, 0>> /\ writes[i].symbol = "+"
    /\ \A x \in 1 .. 3 :
          \E i \in DOMAIN writes : writes[i].position = <<x, 0>> /\ writes[i].symbol = "-"

\* C2: LineSpacer::render, case 2.  For either direction and every rectangle
\* of width 1 and height 1, render returns normally having written exactly one
\* cell, the rectangle's (x, y), with the merged glyph, and none with the
\* begin, inner or end glyph.
C2_SingleCellMerged ==
    (/\ op = "render"
     /\ input.area.width = 1
     /\ input.area.height = 1)
    => /\ result = Ok("()")
       /\ writes = << [position |-> <<input.area.x, input.area.y>>,
                       field |-> "merged",
                       symbol |-> input.spacer.merged] >>

\* C2's case: the scenario's 'o' at (0, 0) of the area (0, 0, 1, 1)
C2_Witness ==
    /\ op = "render"
    /\ input.area = Rect(0, 0, 1, 1)
    /\ input.spacer.merged = "o"
    /\ Len(writes) = 1
    /\ writes[1].position = <<0, 0>>
    /\ writes[1].symbol = "o"

\* C3: LineSpacer::render, case 1.  For either direction and every rectangle
\* of width 0 or height 0, whatever the other extent, render returns normally
\* and writes no cell: the zero-area case comes before the axis/extent check.
C3_ZeroAreaNoOp ==
    (/\ op = "render"
     /\ IsEmpty(input.area))
    => /\ result = Ok("()")
       /\ writes = <<>>

\* C4: every rectangle MainView::draw hands to render_widget or to a child's
\* draw lies inside the area draw was given, for every area.
C4_DrawInsideArea ==
    op = "draw" => \A i \in DOMAIN calls : Inside(input.area, calls[i].area)

\* C5: whenever the draw of a child returns an error, MainView::draw returns
\* that same error to its caller as an Err; it does not panic.
C5_ChildErrReturned ==
    op = "draw"
    => \A i \in DOMAIN calls :
          (calls[i].kind = "draw" /\ calls[i].result.tag = "Err")
          => result = calls[i].result

\* C6: each layout MainView::draw builds tiles its parent when nothing is
\* clipped: the six bands an area of height >= 12 (1, 7, Fill, 1, 2, 1); the
\* columns and spacers of the top row a top band of width >= 26 (8, gap 1,
\* Fill, gap 1, 16); the label, the gap and the field of each bottom line a
\* line of width >= 12 (11, gap 1, Fill).  And a 10x1 parent split as
\* [Length 3, Fill] with spacing 1 gives (x, y, 3, 1), the gap (x + 3, y, 1, 1)
\* and (x + 4, y, 6, 1).
C6_LayoutsTile ==
    op = "draw"
    => /\ input.area.height >= 12
          => Tiles(Vertical, input.area,
                   << rects.area_header, rects.area_top, rects.area_content,
                      rects.area_bottom_spacer, rects.area_bottom, rects.area_footer >>,
                   << 1, 7, -1, 1, 2, 1 >>)
       /\ rects.area_top.width >= 26
          => Tiles(Horizontal, rects.area_top,
                   << rects.area_tree, rects.area_top_spacer_0, rects.area_metadata,
                      rects.area_top_spacer_1, rects.area_overview >>,
                   << 8, 1, -1, 1, 16 >>)
       /\ \A line \in {"area_record_name", "area_encoding"} :
             (line \in DOMAIN rects /\ rects[line].width >= 12)
             => LET label == IF line = "area_record_name"
                             THEN rects.area_record_name_label
                             ELSE rects.area_encoding_label
                    fld == IF line = "area_record_name"
                           THEN rects.area_record_name_field
                           ELSE rects.area_encoding_field
                IN  Tiles(Horizontal, rects[line],
                          << label, GapAfter(label), fld >>, << 11, 1, -1 >>)
       /\ LET l == Layout(Horizontal, 1, << Length(3), Fill(1) >>)
              parent == Rect(input.area.x, input.area.y, 10, 1)
          IN  /\ areas(l, parent)[1] = Rect(parent.x, parent.y, 3, 1)
              /\ areas(l, parent)[2] = Rect(parent.x + 4, parent.y, 6, 1)
              /\ spacers(l, parent)[2] = Rect(parent.x + 3, parent.y, 1, 1)

\* C6's case: a draw of an area of height >= 12 and width >= 26 that built
\* all its layouts, the Fill segments being non-empty
C6_Witness ==
    /\ op = "draw"
    /\ input.area.height > 12
    /\ input.area.width > 26
    /\ "area_encoding_field" \in DOMAIN rects
    /\ rects.area_content.height > 0
    /\ rects.area_metadata.width > 0
    /\ rects.area_encoding_field.width > 0

\* C7: in one draw of MainView with focus f, every child get_children returns
\* has its draw called exactly once, with focused_id = f, whatever the area,
\* and the component is left as it was.
C7_FocusToEveryChild ==
    op = "draw"
    => /\ \A k \in DOMAIN get_children(tree) :
             /\ Cardinality(DrawsOf(get_children(tree)[k].id)) = 1
             /\ \A i \in DrawsOf(get_children(tree)[k].id) :
                   calls[i].focused_id = input.focused_id
       /\ tree = MainView_new(1, 2, 3)

\* C8: get_accessibility_node returns one node, whose children are the nodes
\* of the components get_children returns, one each, in the same order.
C8_NodeListsChildren ==
    op = "get_accessibility_node"
    => /\ result.tag = "Ok"
       /\ node.role = "Group"
       /\ Len(node.children) = Len(get_children(tree))
       /\ \A k \in DOMAIN node.children : node.children[k] = get_children(tree)[k].id

\* C9: no step of the registry-open task, its failure included, ends the UI
\* turn loop or changes the component tree or what a UI turn left; the Action
\* channel is all it could change.
C9_TaskIsolated ==
    [][taskPc' # taskPc
       => /\ uiAlive' = uiAlive
          /\ tree' = tree
          /\ UNCHANGED <<input, debug_assertions, op, result, writes, rects, calls, node>>]_vars

\* C9's case: the task has failed, and the turn loop is alive with a draw
\* that returned Ok
C9_Witness ==
    /\ taskPc = "panicked"
    /\ uiAlive
    /\ op = "draw"
    /\ result = Ok("()")

\* C10: the axis/extent assertion of LineSpacer::render holds at each of its
\* four call sites in MainView::draw, for every area: no draw ends in a
\* geometry precondition violation.
C10_SpacersAccepted ==
    op = "draw"
    => /\ result # Panic("debug_assert")
       /\ \A i \in DOMAIN calls :
             calls[i].kind = "LineSpacer" => calls[i].result.tag = "Ok"

====
